---- MODULE Spec2Model ----
(***************************************************************************)
(* A model of the roundabout-counting pipeline of server.js                *)
(* (computeSegmentBboxes, deduplicateRoundabouts, isNearRoute,             *)
(* queryOverpassBboxes, countRoundabouts) and of the leaderboard update of *)
(* POST /api/challenge.                                                    *)
(*                                                                         *)
(* Coordinates are integers in units of 0.0001 degree.  A map element is a  *)
(* record [type, id, lat, lon, nodes, junction]; lat and lon are {} when   *)
(* the field is undefined and {v} otherwise, junction is tags?.junction    *)
(* ("" when the tag is absent).                                            *)
(***************************************************************************)
EXTENDS Integers, Sequences, FiniteSets, TLC

VARIABLES
    coords,      \* the route polyline: a sequence of <<lon, lat>>
    centroid,    \* a junction centroid [lat, lon, den]: (lat/den, lon/den)
    near,        \* the value isNearRoute returned for centroid and coords
    maxSegments, \* the maxSegments argument of computeSegmentBboxes
    segments,    \* the successive slices (`segment`) computeSegmentBboxes took
    bboxes,      \* the bounding boxes computeSegmentBboxes returned
    allElements, \* the accumulated features of countRoundabouts
    overpass,    \* the map data behind the spatial-query service
    batchI,      \* the batch loop index i of countRoundabouts
    retry,       \* the position in the batch of the box being retried
    calls,       \* the queries and delays awaited so far, in order
    nearCount,   \* the value countRoundabouts returned
    pc,          \* position of the operation under study
    elements,    \* the element list handed to deduplicateRoundabouts
    groups,      \* Map<groupId, way[]> returned for elements
    permuted,    \* a reordering of elements
    groupsPerm,  \* Map<groupId, way[]> returned for permuted
    leaderboardFile, \* leaderboard.json: [state, data]
    requests,    \* the /api/challenge requests: position, response
    now,         \* the clock read by new Date(), in milliseconds
    served       \* the body of the last /api/leaderboard response

vars == <<coords, centroid, near, maxSegments, segments, bboxes, allElements, overpass, batchI, retry, calls, nearCount, pc, elements, groups, permuted, groupsPerm, leaderboardFile, requests, now, served>>

\* the variables each part of the pipeline works on, and their values in a
\* specification that does not exercise that part
grouperVars == <<elements, groups, permuted, groupsPerm>>
nearVars == <<centroid, near>>
segmenterVars == <<maxSegments, segments, bboxes>>

GrouperUnused ==
    /\ elements = <<>>
    /\ groups = [g \in {} |-> <<>>]
    /\ permuted = <<>>
    /\ groupsPerm = [g \in {} |-> <<>>]

NearUnused ==
    /\ centroid = [lat |-> 0, lon |-> 0, den |-> 1]
    /\ near = FALSE

SegmenterUnused ==
    /\ maxSegments = 0
    /\ segments = <<>>
    /\ bboxes = <<>>

counterVars == <<overpass, batchI, retry, calls, nearCount>>
boardVars == <<leaderboardFile, requests, now, served>>

BoardUnused ==
    /\ leaderboardFile = [state |-> "missing", data |-> <<>>]
    /\ requests = <<>>
    /\ now = 0
    /\ served = <<>>

CounterUnused ==
    /\ overpass = [ways |-> {}, withheld |-> {}]
    /\ batchI = 0
    /\ retry = 0
    /\ calls = <<>>
    /\ nearCount = 0

(***************************************************************************)
(* Generic helpers                                                         *)
(***************************************************************************)
Range(s) == {s[k] : k \in DOMAIN s}

SetMin(S) == CHOOSE x \in S : \A y \in S : x <= y

\* Map.set(k, v) on a map held as a function
MapSet(m, k, v) == [x \in (DOMAIN m) \cup {k} |-> IF x = k THEN v ELSE m[x]]

EmptyMap == [x \in {} |-> 0]

Way(id, nodes, junction) ==
    [type |-> "way", id |-> id, lat |-> {}, lon |-> {}, nodes |-> nodes,
     junction |-> junction]

Node(id, lat, lon) ==
    [type |-> "node", id |-> id, lat |-> lat, lon |-> lon, nodes |-> <<>>,
     junction |-> ""]

(***************************************************************************)
(* deduplicateRoundabouts (server.js 132-174)                              *)
(***************************************************************************)
IsRoundaboutWay(el) ==
    el.type = "way" /\ el.junction \in {"roundabout", "circular"}

\* one iteration of the loop of lines 142-162 for `way`, on the loop state
\* st = [nodeToGroup, groupId, wayToGroup]
GroupStep(st, way) ==
    LET hits == {k \in 1..Len(way.nodes) : way.nodes[k] \in DOMAIN st.nodeToGroup}
        found == hits # {}
        \* the first node of the way already recorded decides (break, line 147)
        gid == IF found THEN st.nodeToGroup[way.nodes[SetMin(hits)]]
                        ELSE st.groupId
    IN  [nodeToGroup |->
            [n \in (DOMAIN st.nodeToGroup) \cup Range(way.nodes) |->
                IF n \in Range(way.nodes) THEN gid ELSE st.nodeToGroup[n]],
         groupId |-> IF found THEN st.groupId ELSE st.groupId + 1,
         wayToGroup |-> MapSet(st.wayToGroup, way.id, gid)]

RECURSIVE GroupPass(_, _, _)
GroupPass(ways, k, st) ==
    IF k > Len(ways) THEN st
    ELSE GroupPass(ways, k + 1, GroupStep(st, ways[k]))

\* The returned Map<groupId, way[]>, as a function from group id to the
\* sequence of its ways in input order.
deduplicateRoundabouts(els) ==
    LET roundaboutWays == SelectSeq(els, IsRoundaboutWay)
        final == GroupPass(roundaboutWays, 1,
                     [nodeToGroup |-> EmptyMap, groupId |-> 0,
                      wayToGroup |-> EmptyMap])
        wayToGroup == final.wayToGroup
        inGroup(g) == LET Member(w) == wayToGroup[w.id] = g
                      IN  SelectSeq(roundaboutWays, Member)
    IN  [g \in {wayToGroup[w] : w \in DOMAIN wayToGroup} |-> inGroup(g)]

(***************************************************************************)
(* Geometry.  One unit is 0.0001 degree.  Positions are offsets from a     *)
(* reference point at about 48.2 degrees north, where cos(latitude) is     *)
(* 2/3; over the few kilometres of a modelled route the cosine is taken as *)
(* constant.  A centroid is a mean of integer positions and is kept as the *)
(* exact fraction [lat, lon, den].  Distances are compared through their   *)
(* squares, as fractions <<numerator, denominator>>.                       *)
(***************************************************************************)
Abs(x) == IF x < 0 THEN -x ELSE x
Min(a, b) == IF a < b THEN a ELSE b
Max(a, b) == IF a > b THEN a ELSE b

NoCentroid == [lat |-> 0, lon |-> 0, den |-> 1]

\* num / den < lim[1] / lim[2] for den > 0, with small intermediate products
RatLT(num, den, lim) ==
    LET q == num \div den
        ql == lim[1] \div lim[2]
    IN  IF q # ql THEN q < ql
        ELSE (num % den) * lim[2] < (lim[1] % lim[2]) * den

cosLat == <<2, 3>>

\* haversineMeters(lat1, lon1, lat2, lon2) < 50 for two points a/den apart in
\* latitude and b/den apart in longitude.  With R = 6371000 a unit of
\* latitude is 11.1195 m and, for these small angles, the distance is
\* 11.1195 * sqrt(dLat^2 + (cos * dLon)^2): below 50 m iff
\* 9 a^2 + 4 b^2 < 181.98 den^2.  The first two conjuncts follow from the
\* third and keep the products small.
haversineBelowMax(a, b, den) ==
    /\ Abs(a) <= 5 * den
    /\ Abs(b) <= 7 * den
    /\ (cosLat[2] * cosLat[2] * a * a + cosLat[1] * cosLat[1] * b * b) * 100
           < 18198 * den * den

\* distToSegment(px, py, ax, ay, bx, by) squared, for p = (pxN/den, pyN/den)
distToSegmentSq(pxN, pyN, den, ax, ay, bx, by) ==
    LET dx == bx - ax
        dy == by - ay
        lenSq == dx * dx + dy * dy
        ux == pxN - den * ax
        uy == pyN - den * ay
        vx == pxN - den * bx
        vy == pyN - den * by
        dot == ux * dx + uy * dy            \* t = dot / (den * lenSq)
        cross == ux * dy - uy * dx
    IN  IF lenSq = 0 THEN <<ux * ux + uy * uy, den * den>>
        ELSE IF dot <= 0 THEN <<ux * ux + uy * uy, den * den>>
        ELSE IF dot >= den * lenSq THEN <<vx * vx + vy * vy, den * den>>
        ELSE <<cross * cross, den * den * lenSq>>

(***************************************************************************)
(* isNearRoute (server.js 198-242), maxDistMeters = 50                     *)
(***************************************************************************)
SampleTarget == 500
CoarseReject == 500      \* 0.05 degree
EnvelopePad == 10        \* 0.001 degree

CoarseStep(routeCoords) == Max(1, Len(routeCoords) \div SampleTarget)

\* the coarse pass (lines 203-219) returns true: minDist is the least sampled
\* distance so far, so the return of line 218 is taken at the first sample
\* that is not skipped and is below the maximum
CoarseAccepts(c, routeCoords) ==
    LET len == Len(routeCoords)
        step == CoarseStep(routeCoords)
    IN  \E i \in 0..(len - 2) :
          /\ i % step = 0
          /\ LET j == Min(i + step, len - 1)
                 p1 == routeCoords[i + 1]
                 p2 == routeCoords[j + 1]
                 \* centroid minus midpoint, scaled by 2 * c.den
                 a == 2 * c.lat - c.den * (p1[2] + p2[2])
                 b == 2 * c.lon - c.den * (p1[1] + p2[1])
             IN  /\ ~(/\ Abs(a) > CoarseReject * 2 * c.den
                      /\ Abs(b) > CoarseReject * 2 * c.den)
                 /\ haversineBelowMax(a, b, 2 * c.den)

\* the start indices (0-based) of the segments the fine pass examines
FineSegmentsStrided(routeCoords) ==
    {i \in 0..(Len(routeCoords) - 2) : i % CoarseStep(routeCoords) = 0}

FineSegments(routeCoords) == 0..(Len(routeCoords) - 2)

\* flatDist * 111320 * cos(centroidLat) < 50: a unit of flatDist is
\* 11.132 * 2/3 m, so flatDist^2 < (50 / 7.4213)^2 = 45.39
FineLimitSq == <<4539, 100>>

\* the fine pass (lines 222-239) returns true
FineAccepts(c, routeCoords) ==
    \E i \in FineSegments(routeCoords) :
        LET p1 == routeCoords[i + 1]
            p2 == routeCoords[i + 2]
            d == distToSegmentSq(c.lon, c.lat, c.den, p1[1], p1[2], p2[1], p2[2])
        IN  /\ ~(\/ c.lat < c.den * (Min(p1[2], p2[2]) - EnvelopePad)
                 \/ c.lat > c.den * (Max(p1[2], p2[2]) + EnvelopePad)
                 \/ c.lon < c.den * (Min(p1[1], p2[1]) - EnvelopePad)
                 \/ c.lon > c.den * (Max(p1[1], p2[1]) + EnvelopePad))
            /\ RatLT(d[1], d[2], FineLimitSq)

isNearRoute(c, routeCoords) ==
    CoarseAccepts(c, routeCoords) \/ FineAccepts(c, routeCoords)

(***************************************************************************)
(* computeSegmentBboxes (server.js 107-130)                                *)
(***************************************************************************)
BboxBuffer == 30         \* 0.003 degree

\* Math.ceil(coords.length / maxSegments), floored
SegmentSizeFloor(len, maxSeg) == Max(1, len \div maxSeg)

\* segmentSize (line 109)
SegmentSize(len, maxSeg) == Max(1, (len + maxSeg - 1) \div maxSeg)

\* coords.slice(from, to) with 0-based from (inclusive) and to (exclusive)
Slice(s, from, to) == SubSeq(s, from + 1, Min(to, Len(s)))

\* the slices of the loop of lines 113-128, in order
SegmentSlices(cs, maxSeg) ==
    LET segmentSize == SegmentSize(Len(cs), maxSeg)
        starts == {i \in 0..(Len(cs) - 1) : i % segmentSize = 0}
    IN  [k \in 1..Cardinality(starts) |->
            Slice(cs, (k - 1) * segmentSize, (k - 1) * segmentSize + segmentSize + 1)]

SeqMinOf(seg, c) == SetMin({seg[k][c] : k \in DOMAIN seg})
SeqMaxOf(seg, c) == -SetMin({-seg[k][c] : k \in DOMAIN seg})

\* the box pushed at lines 122-127 for one slice
BboxOf(seg) ==
    [s |-> SeqMinOf(seg, 2) - BboxBuffer, n |-> SeqMaxOf(seg, 2) + BboxBuffer,
     w |-> SeqMinOf(seg, 1) - BboxBuffer, e |-> SeqMaxOf(seg, 1) + BboxBuffer]

computeSegmentBboxes(cs, maxSeg) ==
    LET slices == SegmentSlices(cs, maxSeg)
    IN  [k \in DOMAIN slices |-> BboxOf(slices[k])]

(***************************************************************************)
(* Feature deduplication of countRoundabouts (server.js 315-323)           *)
(***************************************************************************)
\* `${el.type}-${el.id}`
ElementKey(el) == el.type \o "-" \o ToString(el.id)

\* el.id as a condition: an id that is 0 or missing is falsy; the model
\* writes both as 0
Truthy(id) == id # 0

\* the loop body with the later duplicate replacing the stored element
KeepLastOccurrence(unique, el) ==
    IF ~Truthy(el.id) THEN unique
    ELSE IF \E j \in DOMAIN unique : ElementKey(unique[j]) = ElementKey(el)
         THEN [j \in DOMAIN unique |->
                  IF ElementKey(unique[j]) = ElementKey(el) THEN el ELSE unique[j]]
         ELSE Append(unique, el)

\* the loop body of lines 318-320 on uniqueElements, held as the sequence
\* of its values in insertion order
KeepFirstOccurrence(unique, el) ==
    IF Truthy(el.id) /\ ~\E j \in DOMAIN unique : ElementKey(unique[j]) = ElementKey(el)
    THEN Append(unique, el)
    ELSE unique

RECURSIVE UniquePass(_, _, _)
UniquePass(all, k, unique) ==
    IF k > Len(all) THEN unique
    ELSE UniquePass(all, k + 1, KeepFirstOccurrence(unique, all[k]))

\* [...uniqueElements.values()] (line 323)
UniqueElements(all) == UniquePass(all, 1, <<>>)

(***************************************************************************)
(* countRoundabouts after the batch loop (server.js 315-362)               *)
(***************************************************************************)
TheOne(S) == CHOOSE x \in S : TRUE

SetMax(S) == CHOOSE x \in S : \A y \in S : x >= y

\* nodePositions (lines 326-331): the last node element of an id decides
NodePositions(els) ==
    LET located == {k \in DOMAIN els :
                       els[k].type = "node" /\ els[k].lat # {} /\ els[k].lon # {}}
    IN  [id \in {els[k].id : k \in located} |->
            LET k == SetMax({j \in located : els[j].id = id})
            IN  [lat |-> TheOne(els[k].lat), lon |-> TheOne(els[k].lon)]]

\* the sums of one way with count raised for every node id, also for one
\* without a known position
RECURSIVE SumWayNodesCountAll(_, _, _, _)
SumWayNodesCountAll(nodes, k, pos, acc) ==
    IF k > Len(nodes) THEN acc
    ELSE SumWayNodesCountAll(nodes, k + 1, pos,
            IF nodes[k] \in DOMAIN pos
            THEN [lat |-> acc.lat + pos[nodes[k]].lat,
                  lon |-> acc.lon + pos[nodes[k]].lon,
                  den |-> acc.den + 1]
            ELSE [acc EXCEPT !.den = acc.den + 1])

\* sumLat, sumLon and count of lines 341-351 over the nodes of one way, from
\* its node number k on, added to acc
RECURSIVE SumWayNodes(_, _, _, _)
SumWayNodes(nodes, k, pos, acc) ==
    IF k > Len(nodes) THEN acc
    ELSE SumWayNodes(nodes, k + 1, pos,
            IF nodes[k] \in DOMAIN pos
            THEN [lat |-> acc.lat + pos[nodes[k]].lat,
                  lon |-> acc.lon + pos[nodes[k]].lon,
                  den |-> acc.den + 1]
            ELSE acc)

RECURSIVE SumGroupNodes(_, _, _, _)
SumGroupNodes(ways, k, pos, acc) ==
    IF k > Len(ways) THEN acc
    ELSE SumGroupNodes(ways, k + 1, pos, SumWayNodes(ways[k].nodes, 1, pos, acc))

\* the sums of a group; the centroid is (lat / den, lon / den) when den > 0
GroupCentroid(ways, pos) ==
    SumGroupNodes(ways, 1, pos, [lat |-> 0, lon |-> 0, den |-> 0])

\* lines 352-358: the group is counted
CountsGroup(ways, pos, routeCoords) ==
    LET c == GroupCentroid(ways, pos)
    IN  c.den # 0 /\ isNearRoute(c, routeCoords)

\* lines 315-362: the count returned for the accumulated features
CountNear(all, routeCoords) ==
    LET unique == UniqueElements(all)
        pos == NodePositions(unique)
        gs == deduplicateRoundabouts(unique)
    IN  Cardinality({g \in DOMAIN gs : CountsGroup(gs[g], pos, routeCoords)})

(***************************************************************************)
(* The spatial-query service as queryOverpassBboxes sees it (server.js     *)
(* 244-280).  The map is made of the ways of MapWays whose ids are in      *)
(* overpass.ways and of the nodes MapNodes: a roundabout drawn as three    *)
(* ways A, B, C (A and B joined by C) on the route, a roundabout F 220 m   *)
(* off the route, and a roundabout U.  The query of lines 246-251 selects  *)
(* the roundabout ways with a node inside one of the boxes, then their     *)
(* nodes; each part is written in ascending id order.  The nodes in        *)
(* overpass.withheld are left out of every response.                       *)
(***************************************************************************)
WayA == Way(1, <<1, 2>>, "roundabout")
WayB == Way(2, <<3, 4>>, "roundabout")
WayC == Way(3, <<2, 3>>, "roundabout")
WayF == Way(4, <<5, 6>>, "circular")
WayU == Way(5, <<7>>, "roundabout")

MapWays == {WayA, WayB, WayC, WayF, WayU}

MapNodes ==
    {Node(1, {0}, {134}), Node(2, {0}, {132}), Node(3, {0}, {129}),
     Node(4, {0}, {127}), Node(5, {20}, {150}), Node(6, {20}, {152}),
     Node(7, {1}, {100})}

InBox(b, node) ==
    /\ b.s <= TheOne(node.lat) /\ TheOne(node.lat) <= b.n
    /\ b.w <= TheOne(node.lon) /\ TheOne(node.lon) <= b.e

RECURSIVE SortById(_)
SortById(S) ==
    IF S = {} THEN <<>>
    ELSE LET first == CHOOSE x \in S : \A y \in S : x.id <= y.id
         IN  <<first>> \o SortById(S \ {first})

\* data.elements of a successful query for the boxes `boxes`
QueryElements(map, boxes) ==
    LET inside == {n \in MapNodes : \E k \in DOMAIN boxes : InBox(boxes[k], n)}
        ways == {w \in MapWays :
                    /\ w.id \in map.ways
                    /\ IsRoundaboutWay(w)
                    /\ \E n \in inside : n.id \in Range(w.nodes)}
        nodes == {n \in MapNodes :
                    /\ n.id \notin map.withheld
                    /\ \E w \in ways : n.id \in Range(w.nodes)}
    IN  SortById(ways) \o SortById(nodes)

\* the ways a query can fail: res.ok false (line 269), JSON.parse throwing
\* (line 276), the abort of line 256, and a parsed body without an elements
\* list, on which line 297 or 305 throws
FailureKinds == {"http", "parse", "timeout", "noelements"}

(***************************************************************************)
(* Specification SpecGrouper: deduplicateRoundabouts applied to bounded    *)
(* lists of ways, and to reorderings of them.                              *)
(***************************************************************************)
MaxNode == 3
MaxWays == 3

\* node lists of at most two distinct node ids
NodeLists ==
    {<<>>} \cup {<<a>> : a \in 1..MaxNode}
           \cup {ab \in (1..MaxNode) \X (1..MaxNode) : ab[1] < ab[2]}

WayLists ==
    UNION {[1..n -> NodeLists \X {"roundabout", "circular", ""}] : n \in 0..MaxWays}

Orders(n) == {p \in [1..n -> 1..n] : \A a, b \in 1..n : p[a] = p[b] => a = b}

NoGroups == [g \in {} |-> <<>>]

InitGrouper ==
    /\ pc = "input"
    /\ \E wl \in WayLists :
          elements = [k \in DOMAIN wl |-> Way(k, wl[k][1], wl[k][2])]
    /\ groups = NoGroups
    /\ permuted = <<>>
    /\ groupsPerm = NoGroups
    /\ coords = <<>>
    /\ allElements = <<>>
    /\ BoardUnused
    /\ CounterUnused
    /\ NearUnused
    /\ SegmenterUnused

\* deduplicateRoundabouts(elements)
Group ==
    /\ pc = "input"
    /\ groups' = deduplicateRoundabouts(elements)
    /\ pc' = "grouped"
    /\ UNCHANGED <<boardVars, elements, permuted, groupsPerm, coords, allElements, counterVars, nearVars, segmenterVars>>

\* deduplicateRoundabouts on the same ways in another order
GroupPermuted ==
    /\ pc = "grouped"
    /\ \E p \in Orders(Len(elements)) :
          /\ permuted' = [k \in DOMAIN elements |-> elements[p[k]]]
          /\ groupsPerm' = deduplicateRoundabouts(permuted')
    /\ pc' = "regrouped"
    /\ UNCHANGED <<boardVars, elements, groups, coords, allElements, counterVars, nearVars, segmenterVars>>

NextGrouper == Group \/ GroupPermuted

SpecGrouper == InitGrouper /\ [][NextGrouper]_vars

\* the partition of way ids a returned Map<groupId, way[]> stands for
PartitionOf(gs) == {{w.id : w \in Range(gs[g])} : g \in DOMAIN gs}

SharesNode(w1, w2) == Range(w1.nodes) \cap Range(w2.nodes) # {}

\* the ways reachable from the set S of ways by chains of node-sharing ways
RECURSIVE Reachable(_, _)
Reachable(S, ways) ==
    LET more == {w \in ways : \E v \in S : SharesNode(v, w)} \cup S
    IN  IF more = S THEN S ELSE Reachable(more, ways)

ConnectivityPartition(els) ==
    LET ways == {els[k] : k \in {j \in DOMAIN els : IsRoundaboutWay(els[j])}}
    IN  {{v.id : v \in Reachable({w}, ways)} : w \in ways}

\* C2: after deduplicateRoundabouts two roundabout ways are in the same group
\* if and only if a chain of roundabout ways, each consecutive pair sharing a
\* node id, links them: the groups are the connectivity partition.
C2_GroupsAreConnectivityPartition ==
    pc \in {"grouped", "regrouped"} =>
        PartitionOf(groups) = ConnectivityPartition(elements)

\* C3: every permutation of the way list yields the same partition of the
\* ways into groups (group ids ignored).
C3_GroupingOrderIndependent ==
    pc = "regrouped" => PartitionOf(groupsPerm) = PartitionOf(groups)

(***************************************************************************)
(* Specification SpecNear: isNearRoute applied to short routes over a few  *)
(* positions and to routes long enough for the coarse pass to stride.      *)
(***************************************************************************)
MaxShortLen == 3

ShortPoints == {0, 12, 24} \X {0, 9}

ShortRoutes == UNION {[1..n -> ShortPoints] : n \in 2..MaxShortLen}

\* an east-west line of len points, sp units apart, whose point number s
\* (0-based) lies h units to the north
LongRoute(len, sp, s, h) ==
    [k \in 1..len |-> <<sp * (k - 1), IF k - 1 = s THEN h ELSE 0>>]

LongRoutes ==
    {LongRoute(2 * SampleTarget + dl, 20, s, h) :
        dl \in {-1, 0, 1}, s \in {3, 4}, h \in {0, 40}}

MidpointOf(p1, p2) == [lat |-> p1[2] + p2[2], lon |-> p1[1] + p2[1], den |-> 2]

CentroidsFor(route) ==
    {[lat |-> y, lon |-> x, den |-> 1] :
        x \in {-8, 0, 5, 7, 12, 18, 60, 66}, y \in {-5, 0, 4, 5, 7, 9, 20}}
    \cup {[lat |-> y, lon |-> x, den |-> 3] : x \in {0, 20}, y \in {13, 14, 20}}
    \cup {MidpointOf(route[i + 1], route[i + 2]) :
            i \in {j \in 0..(Len(route) - 2) : j <= 6 \/ j = Len(route) - 2}}

InitNear ==
    /\ pc = "input"
    /\ coords \in ShortRoutes \cup LongRoutes
    /\ centroid \in CentroidsFor(coords)
    /\ near = FALSE
    /\ allElements = <<>>
    /\ BoardUnused
    /\ CounterUnused
    /\ GrouperUnused
    /\ SegmenterUnused

\* isNearRoute(centroidLat, centroidLon, coords, 50)
CheckNear ==
    /\ pc = "input"
    /\ near' = isNearRoute(centroid, coords)
    /\ pc' = "checked"
    /\ UNCHANGED <<boardVars, coords, centroid, allElements, counterVars, grouperVars,
                   segmenterVars>>

NextNear == CheckNear

SpecNear == InitNear /\ [][NextNear]_vars

\* the centroid c is less than 50 m (great-circle) from the segment p1-p2.
\* In the plane x = 2 lon, y = 3 lat a unit is a third of a unit of latitude
\* in every direction, so 50 m is sqrt(181.98) units.  A centroid more than
\* 10 units of longitude (74 m) or latitude (111 m) outside the segment's
\* box is farther than that.
WithinMaxOfSegment(c, p1, p2) ==
    LET d == distToSegmentSq(2 * c.lon, 3 * c.lat, c.den,
                             2 * p1[1], 3 * p1[2], 2 * p2[1], 3 * p2[2])
    IN  /\ c.lat >= c.den * (Min(p1[2], p2[2]) - 10)
        /\ c.lat <= c.den * (Max(p1[2], p2[2]) + 10)
        /\ c.lon >= c.den * (Min(p1[1], p2[1]) - 10)
        /\ c.lon <= c.den * (Max(p1[1], p2[1]) + 10)
        /\ RatLT(d[1], d[2], <<18198, 100>>)

WithinMaxOfRoute(c, route) ==
    \E i \in 1..(Len(route) - 1) : WithinMaxOfSegment(c, route[i], route[i + 1])

\* C5: isNearRoute never accepts a centroid that is farther than 50 m from
\* every segment between two consecutive route points, whatever the length
\* of the polyline.
C5_AcceptedOnlyWithinThreshold ==
    (pc = "checked" /\ near) => WithinMaxOfRoute(centroid, coords)

IsSegmentMidpoint(c, route) ==
    \E i \in 1..(Len(route) - 1) :
        /\ 2 * c.lat = c.den * (route[i][2] + route[i + 1][2])
        /\ 2 * c.lon = c.den * (route[i][1] + route[i + 1][1])

\* C8: a centroid exactly on the midpoint of a segment between two
\* consecutive route points is accepted, for every polyline, also one long
\* enough for the coarse pass to skip points.
C8_SegmentMidpointAccepted ==
    (pc = "checked" /\ IsSegmentMidpoint(centroid, coords)) => near

\* a midpoint of a long route that the coarse pass does not accept and the
\* fine pass does
C8_Witness ==
    /\ pc = "checked"
    /\ Len(coords) >= 2 * SampleTarget
    /\ IsSegmentMidpoint(centroid, coords)
    /\ ~CoarseAccepts(centroid, coords)
    /\ near

(***************************************************************************)
(* Specification SpecSegmenter: computeSegmentBboxes applied to polylines  *)
(* of every length up to MaxRouteLen, for every maxSegments up to          *)
(* MaxSegmentsArg.                                                         *)
(***************************************************************************)
MaxRouteLen == 30
MaxSegmentsArg == 13

\* polylines of pairwise distinct points
WindingRoute(len, bend) ==
    [k \in 1..len |-> <<7 * k, IF bend THEN (k * k) % 11 ELSE 0>>]

InitSegmenter ==
    /\ pc = "input"
    /\ \E len \in 2..MaxRouteLen, bend \in BOOLEAN : coords = WindingRoute(len, bend)
    /\ maxSegments \in 1..MaxSegmentsArg
    /\ segments = <<>>
    /\ bboxes = <<>>
    /\ allElements = <<>>
    /\ BoardUnused
    /\ CounterUnused
    /\ GrouperUnused
    /\ NearUnused

\* computeSegmentBboxes(coords, maxSegments)
Segment ==
    /\ pc = "input"
    /\ segments' = SegmentSlices(coords, maxSegments)
    /\ bboxes' = computeSegmentBboxes(coords, maxSegments)
    /\ pc' = "segmented"
    /\ UNCHANGED <<boardVars, coords, maxSegments, allElements, counterVars, grouperVars,
                   nearVars>>

NextSegmenter == Segment

SpecSegmenter == InitSegmenter /\ [][NextSegmenter]_vars

\* the chunks joined, each chunk after the first without its first point
RECURSIVE JoinChunks(_, _)
JoinChunks(chunks, k) ==
    IF k > Len(chunks) THEN <<>>
    ELSE (IF k = 1 THEN chunks[k] ELSE Tail(chunks[k])) \o JoinChunks(chunks, k + 1)

\* C6: for a polyline of length L >= 2 and maximum segment count M there are
\* at most M boxes, each chunk after the first starts at the last point of
\* the chunk before it, and the chunks joined without the one-point overlaps
\* are the original point sequence.
C6_SegmentsCoverRoute ==
    pc = "segmented" =>
        /\ Len(bboxes) <= maxSegments
        /\ Len(bboxes) = Len(segments)
        /\ \A k \in 1..(Len(segments) - 1) :
              /\ segments[k] # <<>>
              /\ segments[k + 1] # <<>>
              /\ segments[k + 1][1] = segments[k][Len(segments[k])]
        /\ JoinChunks(segments, 1) = coords

\* a polyline longer than the maximum count, cut into several chunks the
\* last of which is the single overlap point
C6_Witness ==
    /\ pc = "segmented"
    /\ Len(coords) > maxSegments
    /\ Len(segments) >= 3
    /\ Len(segments[Len(segments)]) = 1

(***************************************************************************)
(* Specification SpecDedup: the deduplication loop applied to bounded      *)
(* accumulated lists in which one identity occurs with different contents. *)
(***************************************************************************)
MaxId == 2
MaxAccum == 3

FeaturePool ==
    {Node(id, {v}, {v}) : id \in 0..MaxId, v \in {0, 1}}
    \cup {Way(id, <<v>>, "roundabout") : id \in 0..MaxId, v \in {1, 2}}

InitDedup ==
    /\ pc = "input"
    /\ allElements \in UNION {[1..n -> FeaturePool] : n \in 0..MaxAccum}
    /\ coords = <<>>
    /\ BoardUnused
    /\ CounterUnused
    /\ GrouperUnused
    /\ NearUnused
    /\ SegmenterUnused

\* lines 316-323
Deduplicate ==
    /\ pc = "input"
    /\ elements' = UniqueElements(allElements)
    /\ pc' = "deduped"
    /\ UNCHANGED <<boardVars, coords, allElements, groups, permuted, groupsPerm, counterVars,
                   nearVars, segmenterVars>>

NextDedup == Deduplicate

SpecDedup == InitDedup /\ [][NextDedup]_vars

Identity(el) == <<el.type, el.id>>

\* the identity of all[k] occurs exactly once in unique, with the content of
\* its first occurrence in all
RetainedOnceAsFirst(all, unique, k) ==
    LET first == SetMin({j \in DOMAIN all : Identity(all[j]) = Identity(all[k])})
        kept == {j \in DOMAIN unique : Identity(unique[j]) = Identity(all[k])}
    IN  /\ Cardinality(kept) = 1
        /\ \A j \in kept : unique[j] = all[first]

\* C7 as stated: every (kind, id) identity of the accumulated list is in the
\* deduplicated list exactly once, as its first occurrence.
C7_EveryIdentityOnce ==
    pc = "deduped" =>
        \A k \in DOMAIN allElements : RetainedOnceAsFirst(allElements, elements, k)

\* C7 as amended: every identity with a non-zero id is in the deduplicated
\* list exactly once, as its first occurrence; a feature whose id is 0 or
\* missing is in the deduplicated list not at all.
C7_EveryTruthyIdentityOnce ==
    pc = "deduped" =>
        /\ \A k \in DOMAIN allElements :
              Truthy(allElements[k].id) =>
                  RetainedOnceAsFirst(allElements, elements, k)
        /\ \A j \in DOMAIN elements :
              /\ Truthy(elements[j].id)
              /\ \E k \in DOMAIN allElements : elements[j] = allElements[k]

\* an identity accumulated twice with different contents, beside a feature
\* with id 0
C7_Witness ==
    /\ pc = "deduped"
    /\ \E j, k \in DOMAIN allElements :
          /\ j < k
          /\ Identity(allElements[j]) = Identity(allElements[k])
          /\ allElements[j] # allElements[k]
          /\ Truthy(allElements[j].id)
    /\ \E k \in DOMAIN allElements : ~Truthy(allElements[k].id)
    /\ Len(elements) = 1

(***************************************************************************)
(* countRoundabouts, the batch loop (server.js 282-313), as a process.     *)
(* pc is "call" before the call, "awaitBatch" and "awaitRetry" while the   *)
(* query of line 296 or 304 is in flight, "retryDelay" and "batchDelay"    *)
(* during the delays of lines 303 and 312, "done" after the return and     *)
(* "thrown" when an error left the function.  calls lists what was awaited *)
(* so far: queries ([op |-> "query"], the indices of the boxes sent, role  *)
(* "batch" or "retry") and delays ([op |-> "delay"], ms), each with its    *)
(* result: "pending", "ok", "elapsed" or the kind of failure.              *)
(***************************************************************************)
MaxSegmentsDefault == 12
BATCH_SIZE == 12
RetryDelayMs == 5000
BatchDelayMs == 2000

QueryCall(role, boxes) ==
    [op |-> "query", role |-> role, boxes |-> boxes, ms |-> 0, result |-> "pending"]

DelayCall(ms) ==
    [op |-> "delay", role |-> "delay", boxes |-> <<>>, ms |-> ms, result |-> "pending"]

\* the next step taken while the last call is still in flight
LeavePending(log, r) == log

\* the awaited call settles with r and the function resumes
SetResult(log, r) == [log EXCEPT ![Len(log)].result = r]

\* the indices in bb of bb.slice(start, start + BATCH_SIZE) (line 294)
BatchIndices(bb, start) ==
    [k \in 1..(Min(start + BATCH_SIZE, Len(bb)) - start) |-> start + k]

BoxesAt(bb, idx) == [k \in DOMAIN idx |-> bb[idx[k]]]

\* a catch that lets a timeout through
CatchesAllButTimeout(kind) == kind # "timeout"

\* the catch of lines 306-308 takes every error
RetryCatches(kind) == TRUE

\* a retry loop that tries a box again until its query succeeds
RetryUntilOk(k, batchLen, failed) == IF failed THEN k ELSE k + 1

\* the retry loop left at the first failed retry
NextRetryStopsOnFailure(k, batchLen, failed) == IF failed THEN batchLen ELSE k + 1

\* the position the loop of line 301 goes to after the box at position k
NextRetry(k, batchLen, failed) == k + 1

\* the loop test of line 293 with i = start, accumulated features all and
\* awaited calls log: the next batch is queried, or the loop ends and lines
\* 315-362 return the count
LoopHead(start, all, log, bb) ==
    /\ batchI' = start
    /\ retry' = 0
    /\ allElements' = all
    /\ IF start < Len(bb)
       THEN /\ pc' = "awaitBatch"
            /\ calls' = Append(log, QueryCall("batch", BatchIndices(bb, start)))
            /\ nearCount' = nearCount
       ELSE /\ pc' = "done"
            /\ calls' = log
            /\ nearCount' = CountNear(all, coords)

\* a loop that waits after every batch, the last one included
AlwaysWaits(start, n) == TRUE

\* the condition of line 312 for the batch starting at index start of n boxes
MoreBatches(start, n) == start + BATCH_SIZE < n

\* line 312, after the try statement of the batch at batchI
AfterBatch(all, log) ==
    IF MoreBatches(batchI, Len(bboxes))
    THEN /\ pc' = "batchDelay"
         /\ calls' = Append(log, DelayCall(BatchDelayMs))
         /\ allElements' = all
         /\ UNCHANGED <<batchI, retry, nearCount>>
    ELSE LoopHead(batchI + BATCH_SIZE, all, log, bboxes)

\* the loop of line 301 at position k of the batch (0-based)
RetryFrom(k, all, log) ==
    IF k < Len(BatchIndices(bboxes, batchI))
    THEN /\ pc' = "retryDelay"
         /\ retry' = k
         /\ calls' = Append(log, DelayCall(RetryDelayMs))
         /\ allElements' = all
         /\ UNCHANGED <<batchI, nearCount>>
    ELSE AfterBatch(all, log)

\* countRoundabouts(geometry) up to its first await
Call ==
    /\ pc = "call"
    /\ LET bb == computeSegmentBboxes(coords, MaxSegmentsDefault)
       IN  /\ bboxes' = bb
           /\ LoopHead(0, <<>>, <<>>, bb)
    /\ UNCHANGED <<boardVars, coords, overpass, maxSegments, segments, grouperVars, nearVars>>

\* the query in flight returns a body with an elements list (lines 275-276,
\* then 297 or 305)
QueryOk ==
    /\ pc \in {"awaitBatch", "awaitRetry"}
    /\ LET data == QueryElements(overpass, BoxesAt(bboxes, calls[Len(calls)].boxes))
           all == allElements \o data
           log == SetResult(calls, "ok")
       IN  IF pc = "awaitBatch"
           THEN AfterBatch(all, log)
           ELSE RetryFrom(NextRetry(retry, Len(BatchIndices(bboxes, batchI)), FALSE),
                          all, log)
    /\ UNCHANGED <<boardVars, coords, overpass, bboxes, maxSegments, segments, grouperVars,
                   nearVars>>

\* the query in flight fails in one of the given ways (lines 298-300 for
\* the batch, 306-308 for a retry)
QueryFailsAs(kinds) ==
    /\ pc \in {"awaitBatch", "awaitRetry"}
    /\ \E kind \in kinds :
          LET log == SetResult(calls, kind)
          IN  IF pc = "awaitBatch"
              THEN RetryFrom(0, allElements, log)
              ELSE IF RetryCatches(kind)
              THEN RetryFrom(NextRetry(retry, Len(BatchIndices(bboxes, batchI)), TRUE),
                             allElements, log)
              ELSE /\ pc' = "thrown"
                   /\ calls' = log
                   /\ UNCHANGED <<batchI, retry, allElements, nearCount>>
    /\ UNCHANGED <<boardVars, coords, overpass, bboxes, maxSegments, segments, grouperVars,
                   nearVars>>

QueryFails == QueryFailsAs(FailureKinds)

\* the abort timer of line 256 fires before the service has answered
QueryTimesOut == QueryFailsAs({"timeout"})

\* the timer of delay(ms) (lines 66-68) fires: the retry of line 304 is
\* sent, or the loop goes on to the next batch
DelayElapsed ==
    /\ pc \in {"retryDelay", "batchDelay"}
    /\ LET log == SetResult(calls, "elapsed")
       IN  IF pc = "retryDelay"
           THEN /\ pc' = "awaitRetry"
                /\ calls' = Append(log, QueryCall("retry", <<batchI + retry + 1>>))
                /\ UNCHANGED <<batchI, retry, allElements, nearCount>>
           ELSE LoopHead(batchI + BATCH_SIZE, allElements, log, bboxes)
    /\ UNCHANGED <<boardVars, coords, overpass, bboxes, maxSegments, segments, grouperVars,
                   nearVars>>

(***************************************************************************)
(* Specification SpecCount: one call of countRoundabouts on a route along  *)
(* a parallel of latitude, with points 100 units apart, so that the        *)
(* roundabout A, B, C straddles the eastern edge of the box of the first   *)
(* chunk, against maps holding some of the ways; the service does not      *)
(* return the node of U.                                                   *)
(***************************************************************************)
MaxCountLen == 3

RoutePoint(j) == <<100 * j, 0>>

\* the points numbered in S, in ascending order
RouteThrough(S) ==
    [k \in 1..Cardinality(S) |->
        RoutePoint(CHOOSE x \in S : Cardinality({y \in S : y < x}) = k - 1)]

CountRoutes == {RouteThrough(S) : S \in SUBSET (0..(MaxCountLen - 1))}

\* the ids of the ways on the map
MapWaySets ==
    {{}, {1}, {1, 2, 3}, {4}, {1, 2, 3, 4}, {5}, {1, 5}, {2, 3, 4, 5}}

InitCount ==
    /\ pc = "call"
    /\ coords \in CountRoutes
    /\ \E ws \in MapWaySets :
          overpass = [ways |-> ws, withheld |-> {7}]
    /\ batchI = 0
    /\ retry = 0
    /\ calls = <<>>
    /\ nearCount = 0
    /\ allElements = <<>>
    /\ BoardUnused
    /\ GrouperUnused
    /\ NearUnused
    /\ SegmenterUnused

NextCount == Call \/ QueryOk \/ QueryFails \/ DelayElapsed

SpecCount == InitCount /\ [][NextCount]_vars

QueryFailed(call) == call.op = "query" /\ call.result \in FailureKinds

\* the count of the run on the same polyline and map whose batch query
\* succeeds directly: line 297 accumulates the batch response and lines
\* 315-362 count it
DirectCount ==
    CountNear(QueryElements(overpass, BoxesAt(bboxes, BatchIndices(bboxes, 0))),
              coords)

\* C1: whatever the polyline and whichever queries fail, in the batch call
\* or in the retries, countRoundabouts does not throw: it is awaiting a
\* query or a delay until it returns, and it returns an integer >= 0; it
\* returns 0 when every query failed.
C1_NeverThrowsAndCounts ==
    /\ pc \in {"call", "awaitBatch", "awaitRetry", "retryDelay", "batchDelay", "done"}
    /\ pc = "done" =>
          /\ nearCount \in Nat
          /\ (\A j \in DOMAIN calls : calls[j].op = "query" => QueryFailed(calls[j]))
                => nearCount = 0

\* the batch query and every retry failed, one of them by a timeout, on a
\* map with roundabouts on the route, and 0 was returned
C1_Witness ==
    /\ pc = "done"
    /\ Len(bboxes) >= 2
    /\ DirectCount >= 1
    /\ \A j \in DOMAIN calls : calls[j].op = "query" => QueryFailed(calls[j])
    /\ \E j \in DOMAIN calls : calls[j].role = "retry" /\ calls[j].result = "timeout"
    /\ Cardinality({j \in DOMAIN calls : calls[j].role = "retry"}) = Len(bboxes)
    /\ nearCount = 0

\* the batch query failed and every retry of its boxes succeeded
BatchFailedRetriesOk ==
    /\ pc = "done"
    /\ \E j \in DOMAIN calls : calls[j].role = "batch" /\ QueryFailed(calls[j])
    /\ \A j \in DOMAIN calls : calls[j].role = "retry" => calls[j].result = "ok"

\* C4: a run in which the batch query fails and every per-box retry succeeds
\* returns the count of the run, on the same polyline and map, in which the
\* batch query succeeds directly.
C4_RetryEquivalence ==
    BatchFailedRetriesOk => nearCount = DirectCount

\* what lines 297 and 305 have accumulated after the calls of log: the
\* elements of every query that succeeded, in order
RECURSIVE Accumulated(_, _)
Accumulated(log, k) ==
    IF k > Len(log) THEN <<>>
    ELSE (IF log[k].op = "query" /\ log[k].result = "ok"
          THEN QueryElements(overpass, BoxesAt(bboxes, log[k].boxes))
          ELSE <<>>) \o Accumulated(log, k + 1)

\* C10: when a batch query fails, for any reason, nothing of that call is
\* accumulated and every box of the batch is queried individually exactly
\* once, in order, each query after a delay of 5000 ms; the features of the
\* successful retries are accumulated, and a failed retry drops its box only:
\* the retries of the remaining boxes still take place.
C10_BatchFallback ==
    /\ allElements = Accumulated(calls, 1)
    /\ \A j \in DOMAIN calls :
          (calls[j].role = "batch" /\ QueryFailed(calls[j])) =>
              LET n == Len(calls[j].boxes)
              IN  /\ \A m \in 1..n :
                        /\ Len(calls) >= j + 2 * m - 1 =>
                              /\ calls[j + 2 * m - 1].op = "delay"
                              /\ calls[j + 2 * m - 1].ms = 5000
                        /\ Len(calls) >= j + 2 * m =>
                              /\ calls[j + 2 * m].role = "retry"
                              /\ calls[j + 2 * m].boxes = <<calls[j].boxes[m]>>
                  /\ pc = "done" => Len(calls) >= j + 2 * n
                  /\ \A r \in DOMAIN calls :
                        (r > j /\ calls[r].role = "retry") => r <= j + 2 * n
    /\ \A r \in DOMAIN calls :
          calls[r].role = "retry" =>
              \E j \in 1..(r - 1) : calls[j].role = "batch" /\ QueryFailed(calls[j])

\* a failed batch of three boxes whose first retry failed and whose later
\* retries succeeded and brought features
C10_Witness ==
    /\ pc = "done"
    /\ Len(calls) = 7
    /\ QueryFailed(calls[1])
    /\ QueryFailed(calls[3])
    /\ calls[5].result = "ok"
    /\ calls[7].result = "ok"
    /\ allElements # <<>>

InFlight(call) == call.result = "pending"

\* C11: the queries and delays of one countRoundabouts operation are
\* strictly sequential: only the call issued last can be in flight, the
\* operation is suspended exactly while it is, and every individual retry
\* is issued after the failure of the batch query that holds its box and
\* before any later batch query.
C11_CallsSequential ==
    /\ \A j \in DOMAIN calls : InFlight(calls[j]) => j = Len(calls)
    /\ Cardinality({j \in DOMAIN calls :
                       calls[j].op = "query" /\ InFlight(calls[j])}) <= 1
    /\ (pc \in {"awaitBatch", "awaitRetry", "retryDelay", "batchDelay"})
           <=> (calls # <<>> /\ InFlight(calls[Len(calls)]))
    /\ \A r \in DOMAIN calls :
          calls[r].role = "retry" =>
              \E j \in 1..(r - 1) :
                 /\ calls[j].role = "batch"
                 /\ QueryFailed(calls[j])
                 /\ calls[r].boxes[1] \in Range(calls[j].boxes)
                 /\ \A m \in (j + 1)..r : calls[m].role # "batch"

\* the second retry of a failed batch is in flight, after the batch query,
\* a delay, the first retry and another delay have all settled
C11_Witness ==
    /\ pc = "awaitRetry"
    /\ Len(calls) = 5
    /\ calls[1].role = "batch"
    /\ calls[3].role = "retry"
    /\ calls[5].role = "retry"
    /\ InFlight(calls[5])
    /\ \A j \in 1..4 : ~InFlight(calls[j])

IsBatchDelay(call) == call.op = "delay" /\ call.ms = 2000

\* C12: the operation waits 2000 ms between a batch and the next batch's
\* query, whether the batch succeeded directly or went through the per-box
\* retries, and only there: every batch query but the first comes right
\* after such a wait, every such wait is followed by a batch query, and
\* there is none after the last batch.
C12_InterBatchDelay ==
    /\ \A j \in DOMAIN calls :
          (calls[j].role = "batch" /\ j > 1) =>
              /\ IsBatchDelay(calls[j - 1])
              /\ calls[j - 1].result = "elapsed"
    /\ \A j \in DOMAIN calls :
          IsBatchDelay(calls[j]) =>
              /\ j > 1
              /\ j < Len(calls) => calls[j + 1].role = "batch"
              /\ j = Len(calls) => pc = "batchDelay"
    /\ pc = "done" => (calls # <<>> => ~IsBatchDelay(calls[Len(calls)]))

\* the operation returned after its last batch, of several boxes, failed
\* and went through the retries, and the last thing it awaited is a retry
C12_Witness ==
    /\ pc = "done"
    /\ Len(bboxes) >= 2
    /\ QueryFailed(calls[1])
    /\ Len(calls) = 1 + 2 * Len(bboxes)
    /\ calls[Len(calls)].role = "retry"
    /\ \A j \in DOMAIN calls : ~IsBatchDelay(calls[j])

(***************************************************************************)
(* Specification SpecCountFair: one call of countRoundabouts on routes of  *)
(* MaxSegmentsDefault points and more, which computeSegmentBboxes cuts     *)
(* into as many boxes as it ever returns; every query is answered or       *)
(* aborted by the timer of line 256 and every delay timer fires, which is  *)
(* the fairness of the next-state relation.  A failure is a timeout here:  *)
(* the catch blocks do not look at the kind of the error.                  *)
(***************************************************************************)
MaxFullLen == 12

FullRoutes == {RouteThrough(0..(n - 1)) : n \in MaxSegmentsDefault..MaxFullLen}

InitCountFair ==
    /\ pc = "call"
    /\ coords \in FullRoutes
    /\ \E ws \in {{}, {1, 2, 3}} :
          overpass = [ways |-> ws, withheld |-> {7}]
    /\ batchI = 0
    /\ retry = 0
    /\ calls = <<>>
    /\ nearCount = 0
    /\ allElements = <<>>
    /\ BoardUnused
    /\ GrouperUnused
    /\ NearUnused
    /\ SegmenterUnused

NextCountFair == Call \/ QueryOk \/ QueryTimesOut \/ DelayElapsed

\* a query in flight settles: it is answered or the timer of line 256
\* aborts it
QuerySettles == QueryOk \/ QueryTimesOut

\* Weak fairness of QuerySettles, which is enabled exactly while a query is
\* in flight: WF_vars(QuerySettles) with ENABLED <<QuerySettles>>_vars
\* written as the condition on pc that it is.
QueryFairness ==
    \/ []<>(pc \notin {"awaitBatch", "awaitRetry"})
    \/ []<><<QuerySettles>>_vars

SpecCountFair ==
    /\ InitCountFair
    /\ [][NextCountFair]_vars
    /\ WF_vars(Call)
    /\ WF_vars(DelayElapsed)
    /\ QueryFairness

\* the positions in the log of the queries of the given role that hold box b
QueriesOf(role, b) ==
    {j \in DOMAIN calls : calls[j].role = role /\ b \in Range(calls[j].boxes)}

AllQueries == {j \in DOMAIN calls : calls[j].op = "query"}

BatchQueries == {j \in DOMAIN calls : calls[j].role = "batch"}

C14_Bounded ==
    /\ \A b \in DOMAIN bboxes :
          /\ Cardinality(QueriesOf("batch", b)) <= 1
          /\ Cardinality(QueriesOf("retry", b)) <= 1
    /\ \A j \in AllQueries : Range(calls[j].boxes) \subseteq DOMAIN bboxes
    /\ Cardinality(AllQueries) <= Cardinality(BatchQueries) + Len(bboxes)
    /\ Len(bboxes) <= 12
    /\ Cardinality(BatchQueries) <= 1
    /\ Cardinality(AllQueries) <= 13

\* C14: in one countRoundabouts operation every box is in at most two
\* queries, once in its batch and at most once in a retry, so there are at
\* most (batches + boxes) queries; with the defaults there is at most one
\* batch of at most 12 boxes and at most 13 queries; and the operation
\* returns, provided every query is answered, fails or times out.
C14_BoundedAndTerminates == []C14_Bounded /\ <>(pc = "done")

\* the operation returned after 13 queries: the batch of 12 boxes and one
\* retry for each box
C14_Witness ==
    /\ pc = "done"
    /\ Len(bboxes) = 12
    /\ Cardinality(AllQueries) = 13
    /\ \A b \in DOMAIN bboxes :
          Cardinality(QueriesOf("batch", b)) = 1 /\ Cardinality(QueriesOf("retry", b)) = 1

(***************************************************************************)
(* Specification SpecTally: lines 315-362 of countRoundabouts applied to   *)
(* accumulated lists of up to MaxTally features on the route (0, 0) to     *)
(* (0.0200, 0).  Way 1 has the nodes 1 (89 m north of the route) and 2 (on *)
(* the route), way 2 the node 3 (on the route), way 3 no node; node 2 also *)
(* occurs as an element without lat and lon.                               *)
(***************************************************************************)
MaxTally == 4

TallyPool ==
    {Way(1, <<1, 2>>, "roundabout"), Way(2, <<3>>, "roundabout"),
     Way(3, <<>>, "roundabout"),
     Node(1, {8}, {100}), Node(2, {0}, {100}), Node(2, {}, {}),
     Node(3, {0}, {50})}

TallyRoute == <<<<0, 0>>, <<200, 0>>>>

InitTally ==
    /\ pc = "input"
    /\ allElements \in UNION {[1..n -> TallyPool] : n \in 0..MaxTally}
    /\ coords = TallyRoute
    /\ BoardUnused
    /\ CounterUnused
    /\ GrouperUnused
    /\ NearUnused
    /\ SegmenterUnused

\* lines 315-362
Tally ==
    /\ pc = "input"
    /\ nearCount' = CountNear(allElements, coords)
    /\ pc' = "counted"
    /\ UNCHANGED <<boardVars, coords, allElements, overpass, batchI, retry, calls,
                   grouperVars, nearVars, segmenterVars>>

NextTally == Tally

SpecTally == InitTally /\ [][NextTally]_vars

\* the node elements of the deduplicated list that have a position
Positioned(unique) ==
    {unique[k] : k \in {j \in DOMAIN unique :
        unique[j].type = "node" /\ unique[j].lat # {} /\ unique[j].lon # {}}}

\* the occurrences <<way, place>> of node ids with a known position in the
\* ways of a group
Resolvable(ways, unique) ==
    {wk \in UNION {{<<w, k>> : k \in DOMAIN ways[w].nodes} : w \in DOMAIN ways} :
        \E n \in Positioned(unique) : n.id = ways[wk[1]].nodes[wk[2]]}

RECURSIVE SumOver(_, _, _, _)
SumOver(occ, ways, unique, field) ==
    IF occ = {} THEN 0
    ELSE LET wk == CHOOSE x \in occ : TRUE
             n == CHOOSE m \in Positioned(unique) : m.id = ways[wk[1]].nodes[wk[2]]
         IN  TheOne(IF field = "lat" THEN n.lat ELSE n.lon)
                 + SumOver(occ \ {wk}, ways, unique, field)

\* the group has a resolvable node and the mean of its resolvable node
\* positions is near the route
MeanIsNear(ways, unique) ==
    LET occ == Resolvable(ways, unique)
    IN  /\ occ # {}
        /\ isNearRoute([lat |-> SumOver(occ, ways, unique, "lat"),
                        lon |-> SumOver(occ, ways, unique, "lon"),
                        den |-> Cardinality(occ)], coords)

\* the accumulated list without the ways of the groups that have no
\* resolvable node
WithoutUnresolvable(all) ==
    LET unique == UniqueElements(all)
        gs == deduplicateRoundabouts(unique)
        dropped == UNION {Range(gs[g]) : g \in {h \in DOMAIN gs :
                                                   Resolvable(gs[h], unique) = {}}}
        Kept(el) == el \notin dropped
    IN  SelectSeq(all, Kept)

\* C13: a group none of whose node ids has a known position in the
\* deduplicated list, a way without nodes included, is not counted and does
\* not change the count of the other groups, and a group is counted when the
\* mean of its resolvable node positions alone is near the route.
C13_UnresolvableGroupsDiscarded ==
    pc = "counted" =>
        LET unique == UniqueElements(allElements)
            gs == deduplicateRoundabouts(unique)
        IN  /\ nearCount = Cardinality({g \in DOMAIN gs : MeanIsNear(gs[g], unique)})
            /\ nearCount = CountNear(WithoutUnresolvable(allElements), coords)
            /\ nearCount <= Cardinality({g \in DOMAIN gs :
                                            Resolvable(gs[g], unique) # {}})

\* way 1 is counted on the position of node 2 alone, beside way 3, which
\* has no node, and way 2, whose node is not in the list
C13_Witness ==
    /\ pc = "counted"
    /\ allElements = <<Way(3, <<>>, "roundabout"), Way(1, <<1, 2>>, "roundabout"),
                       Way(2, <<3>>, "roundabout"), Node(2, {0}, {100})>>
    /\ nearCount = 1

(***************************************************************************)
(* The leaderboard (server.js 52-63, 457-480, 489-492).  An entry is a     *)
(* record [pseudo, nbRondPoints, date]; the cities, the distance and the   *)
(* ratio of an entry are carried along with it and read by nothing.        *)
(* leaderboardFile.state is "missing" when leaderboard.json does not       *)
(* exist, "garbled" when it does not parse, and "json" when it holds the   *)
(* list leaderboardFile.data.                                              *)
(***************************************************************************)
LeaderboardMax == 100
LeaderboardShown == 20

loadLeaderboard(file) == IF file.state = "json" THEN file.data ELSE <<>>

saveLeaderboard(data) == [state |-> "json", data |-> data]

\* The entries of list whose nbRondPoints is in keys, those with more
\* roundabouts first and those with as many in the order of list: what a
\* stable sort with the comparator b.nbRondPoints - a.nbRondPoints leaves.
RECURSIVE SortPass(_, _)
SortPass(list, keys) ==
    IF keys = {} THEN <<>>
    ELSE LET v == SetMax(keys)
             Scores(e) == e.nbRondPoints = v
         IN  SelectSeq(list, Scores) \o SortPass(list, keys \ {v})

\* leaderboard.sort((a, b) => b.nbRondPoints - a.nbRondPoints)
SortByRoundabouts(list) ==
    SortPass(list, {list[k].nbRondPoints : k \in DOMAIN list})

\* the list saved by a handler that does not trim
KeepAll(list) == list

\* leaderboard.slice(0, 100)
KeepTop(list) == Slice(list, 0, LeaderboardMax)

\* trimmed.findIndex(e => e.date === entry.date) + 1
RankOf(trimmed, entry) ==
    LET hits == {k \in DOMAIN trimmed : trimmed[k].date = entry.date}
    IN  IF hits = {} THEN 0 ELSE SetMin(hits)

NoResponse == [status |-> 0, entry |-> <<>>, rank |-> 0, leaderboard |-> <<>>]

(***************************************************************************)
(* Specification SpecBoard: up to MaxRequests concurrent /api/challenge    *)
(* requests and /api/leaderboard requests against a leaderboard file that  *)
(* is missing, garbled, or holds a list an earlier run saved (sorted, at   *)
(* most LeaderboardMax entries, with dates before the clock's start).      *)
(***************************************************************************)
MaxRequests == 2
MaxScore == 1
MaxClock == 1

\* a saved list of n entries whose first `high` entries score hi, the rest lo
PriorBoard(n, high, hi, lo) ==
    [k \in 1..n |-> [pseudo |-> 0,
                     nbRondPoints |-> IF k <= high THEN hi ELSE lo,
                     date |-> k - n - 1]]

PriorBoards ==
    {PriorBoard(n, high, hi, lo) :
        n \in {0, 1, LeaderboardMax - 1, LeaderboardMax},
        high \in {0, 1},
        hi \in {MaxScore}, lo \in 0..MaxScore}

InitBoard ==
    /\ pc = "serving"
    /\ leaderboardFile \in
           {[state |-> "missing", data |-> <<>>],
            [state |-> "garbled", data |-> <<>>]}
           \cup {saveLeaderboard(b) : b \in PriorBoards}
    /\ requests = [r \in 1..MaxRequests |-> [pc |-> "idle", response |-> NoResponse]]
    /\ now = 0
    /\ served = <<>>
    /\ coords = <<>>
    /\ allElements = <<>>
    /\ CounterUnused
    /\ GrouperUnused
    /\ NearUnused
    /\ SegmenterUnused

boardRest == <<coords, allElements, pc, counterVars, grouperVars, nearVars, segmenterVars>>

\* POST /api/challenge, lines 416-436: the request is valid and the handler
\* reaches its first await
Receive(r) ==
    /\ requests[r].pc = "idle"
    /\ requests' = [requests EXCEPT ![r].pc = "awaiting"]
    /\ UNCHANGED <<leaderboardFile, now, served, boardRest>>

\* lines 419-436, 442-444, 482-485: the request is refused, or one of the
\* awaited calls throws; an error status is sent and nothing is saved
Fail(r) ==
    /\ requests[r].pc \in {"idle", "awaiting"}
    /\ \E st \in {400, 500} :
         /\ (requests[r].pc = "idle") => st = 400
         /\ requests' = [requests EXCEPT ![r] =
                [pc |-> "failed", response |-> [NoResponse EXCEPT !.status = st]]]
    /\ UNCHANGED <<leaderboardFile, now, served, boardRest>>

\* lines 449-480, after countRoundabouts resolved with nbRondPoints: one
\* synchronous run from the entry's creation to the response
Complete(r) ==
    /\ requests[r].pc = "awaiting"
    /\ \E nbRondPoints \in 0..MaxScore :
         LET entry == [pseudo |-> r, nbRondPoints |-> nbRondPoints, date |-> now]
             leaderboard == Append(loadLeaderboard(leaderboardFile), entry)
             trimmed == KeepTop(SortByRoundabouts(leaderboard))
         IN  /\ leaderboardFile' = saveLeaderboard(trimmed)
             /\ requests' = [requests EXCEPT ![r] =
                    [pc |-> "done",
                     response |-> [status |-> 200,
                                   entry |-> entry,
                                   rank |-> RankOf(trimmed, entry),
                                   leaderboard |-> Slice(trimmed, 0, LeaderboardShown)]]]
    /\ UNCHANGED <<now, served, boardRest>>

\* GET /api/leaderboard, lines 489-492
GetLeaderboard ==
    /\ served' = Slice(loadLeaderboard(leaderboardFile), 0, LeaderboardShown)
    /\ UNCHANGED <<leaderboardFile, requests, now, boardRest>>

\* a millisecond passes
Tick ==
    /\ now < MaxClock
    /\ now' = now + 1
    /\ UNCHANGED <<leaderboardFile, requests, served, boardRest>>

NextBoard ==
    \/ \E r \in 1..MaxRequests : Receive(r)
    \/ \E r \in 1..MaxRequests : Fail(r)
    \/ \E r \in 1..MaxRequests : Complete(r)
    \/ GetLeaderboard
    \/ Tick

SpecBoard == InitBoard /\ [][NextBoard]_vars

\* C9: whenever a /api/challenge request completes successfully, the
\* player's entry is in the persisted leaderboard right afterwards, whatever
\* the leaderboard held before and however the requests interleave.
C9_CompletedEntryPersisted ==
    [][\A r \in 1..MaxRequests :
          (requests[r].pc = "awaiting" /\ requests'[r].pc = "done")
              => \E k \in DOMAIN leaderboardFile'.data :
                     leaderboardFile'.data[k] = requests'[r].response.entry]_vars

NonIncreasing(list) ==
    \A k \in 1..(Len(list) - 1) : list[k].nbRondPoints >= list[k + 1].nbRondPoints

WellFormedBoard(file) ==
    file.state = "json" => (Len(file.data) <= 100 /\ NonIncreasing(file.data))

\* C15: after every save of /api/challenge, however the requests
\* interleave, the persisted leaderboard has at most 100 entries in
\* non-increasing order of nbRondPoints, and what /api/leaderboard returns
\* is the first entries of the persisted list, 20 at most.
C15_LeaderboardInvariant ==
    /\ [](WellFormedBoard(leaderboardFile) /\ Len(served) <= 20)
    /\ [][/\ (\E r \in 1..MaxRequests :
                 requests[r].pc = "awaiting" /\ requests'[r].pc = "done")
                 => (leaderboardFile'.state = "json" /\ WellFormedBoard(leaderboardFile'))
          /\ served' # served =>
                LET list == IF leaderboardFile.state = "json"
                            THEN leaderboardFile.data ELSE <<>>
                IN  /\ Len(served') = (IF Len(list) < 20 THEN Len(list) ELSE 20)
                    /\ \A k \in 1..Len(served') : served'[k] = list[k]]_vars

\* two requests completed on a leaderboard that already held 100 entries,
\* the later one entered it, and /api/leaderboard returned its first 20
C15_Witness ==
    /\ \A r \in 1..MaxRequests : requests[r].pc = "done"
    /\ \E r \in 1..MaxRequests : requests[r].response.rank = 1
    /\ Len(leaderboardFile.data) = 100
    /\ \E k \in 1..100 : leaderboardFile.data[k].pseudo = 0
    /\ Len(served) = 20
    /\ served = SubSeq(leaderboardFile.data, 1, 20)

====
